---- MODULE Spec2Model ----
(***************************************************************************)
(* GitOperationsAgent (src/gitops/agents.py): an agent holding at most one *)
(* bound repository and sequencing calls of the version-control engine     *)
(* (GitPython's Repo) for clone, branch, commit, push and status.          *)
(*                                                                         *)
(* The agent is single-threaded: one operation runs at a time.             *)
(* create_unique_branch is modelled step by step (one action per engine    *)
(* call) so that partial failure and the rollback are visible; the other   *)
(* operations are one action each.  Every engine call either succeeds or   *)
(* fails with a GitCommandError or with an error of another class; the     *)
(* handlers of the agent catch GitCommandError only.                       *)
(***************************************************************************)
EXTENDS Integers, Sequences, FiniteSets, TLC

VARIABLES
    repo,        \* self.repo: NoRepo, or the path of the bound repository
    occupied,    \* paths on disk that hold a non-empty directory
    heads,       \* bound repository: local branch name -> tip commit id
    head,        \* bound repository: checked-out branch name, or Detached
    detachedAt,  \* bound repository: commit of HEAD while detached (0 otherwise)
    commits,     \* bound repository: history, commit id = index
    wt,          \* bound repository: working-tree state of each path
    staged,      \* bound repository: paths whose index entry differs from HEAD
    remotes,     \* bound repository: configured remote names
    tracking,    \* bound repository: remote-tracking branches of origin,
                 \* branch name -> tip commit id
    pc,          \* position inside create_unique_branch, "idle" between operations
    cub,         \* locals of the running create_unique_branch
    calls,       \* engine calls issued by the current / last operation
    args,        \* arguments of the current / last operation
    result,      \* what the last operation returned or raised
    returned,    \* for the bound repository, each name create_unique_branch
                 \* returned, with the local branches there were before that call
    pre          \* repository and binding as they were when the last operation began

vars == <<repo, occupied, heads, head, detachedAt, commits, wt, staged, remotes,
          tracking, pc, cub, calls, args, result, returned, pre>>

disk == <<heads, head, detachedAt, commits, wt, staged, remotes, tracking>>

(***************************************************************************)
(* Bounds of the model.                                                    *)
(***************************************************************************)
MaxBranches == 3   \* create_unique_branch is not started with this many branches
MaxCommits == 2    \* commit_changes is not started with this many commits

(***************************************************************************)
(* Values.                                                                 *)
(***************************************************************************)
NoRepo == "None"
RepoPath == "/work"                 \* self.repo_path
Destinations == {"None", "/dest"}   \* the destination argument of clone_repository
Detached == "(detached)"
NoValue == "(none)"

BaseNames == {"feature"}
FromBranches == {"main", "feature-1"}
CloneBranches == {"None", "feature-1"}
\* local branches a repository is found with at construction
InitBranchSets == {{"main"}, {"feature-1"}}
Files == {"a.txt", "b.txt"}   \* the paths of the working tree; any other is missing
\* a path is "clean" (tracked, unchanged), "modified", "untracked" or "missing"
\* working trees a repository is found in at construction
InitTrees ==
    {[f \in Files |-> IF f = "a.txt" THEN "modified" ELSE "untracked"]}
\* the files argument of commit_changes: omitted (None), or a list of paths
FileArgs ==
    {[given |-> FALSE, paths |-> << >>]} \cup
    {[given |-> TRUE, paths |-> p] :
        p \in {<< >>, <<"a.txt">>, <<"ghost.txt">>}}
Messages == {"msg"}
RemoteNames == {"origin", "upstream"}
BranchArgs == {"None", "feature"}

FailKinds == {"GitCommandError", "OtherError"}
EngineOutcomes == {"ok"} \cup FailKinds

Call(prim, arg, out) == [prim |-> prim, arg |-> arg, out |-> out]

Range(s) == {s[i] : i \in 1..Len(s)}

(***************************************************************************)
(* What the caller gets.  error is "none" on a normal return; "NotBound"   *)
(* and "Wrapped" are the agent's own exceptions ("No repository            *)
(* initialized" / "Failed to ...: ..." raised from the engine error);      *)
(* "GitCommandError" and "OtherError" are engine errors that reach the     *)
(* caller as they are.  about is the index in calls of the failed engine   *)
(* call that the error is (or, when wrapped, has as its cause); context is *)
(* the index of the failure that was being handled when it was raised.     *)
(***************************************************************************)
Returned(op, value) ==
    [op |-> op, error |-> "none", about |-> 0, context |-> 0, value |-> value]

NotBound(op) ==
    [op |-> op, error |-> "NotBound", about |-> 0, context |-> 0, value |-> NoValue]

\* A failure of engine call number idx, of class kind, inside
\* "try: ... except GitCommandError as e: raise Exception(...) from e".
Raised(op, kind, idx) ==
    [op |-> op,
     error |-> IF kind = "GitCommandError" THEN "Wrapped" ELSE kind,
     about |-> idx, context |-> 0, value |-> NoValue]

Snapshot ==
    [repo |-> repo, heads |-> heads, head |-> head, detachedAt |-> detachedAt,
     commits |-> commits, wt |-> wt, staged |-> staged, remotes |-> remotes,
     tracking |-> tracking]

HeadCommit == IF head = Detached THEN detachedAt ELSE heads[head]

(***************************************************************************)
(* __init__: bound to the repository at repo_path when a .git directory is *)
(* there, unbound otherwise.  A bound repository is in any state a         *)
(* repository can be in: some local branches, one of them checked out or   *)
(* HEAD detached, any working tree, "origin" configured or not.            *)
(***************************************************************************)
EmptyDisk ==
    /\ heads = [b \in {} |-> 0]
    /\ head = Detached
    /\ detachedAt = 0
    /\ commits = << >>
    /\ wt = [f \in Files |-> "missing"]
    /\ staged = {}
    /\ remotes = {}
    /\ tracking = [b \in {} |-> 0]

\* no create_unique_branch is running: its locals do not exist
NoLocals ==
    [base_name |-> NoValue, from_branch |-> NoValue,
     new_branch_name |-> NoValue, counter |-> 0,
     existing_branches |-> {}, current_branch |-> NoValue, failed |-> 0]

InitIdle ==
    /\ pc = "idle"
    /\ cub = NoLocals
    /\ calls = << >>
    /\ args = << >>
    /\ result = Returned("__init__", NoValue)
    /\ returned = << >>

Init ==
    /\ InitIdle
    /\ \/ /\ repo = NoRepo
          /\ occupied = {}
          /\ EmptyDisk
       \/ /\ repo = RepoPath
          /\ occupied = {RepoPath}
          /\ \E B \in InitBranchSets :
                /\ heads = [b \in B |-> 1]
                /\ head \in {CHOOSE b \in B : TRUE, Detached}
          /\ detachedAt = IF head = Detached THEN 1 ELSE 0
          /\ commits = <<[message |-> "root", parent |-> 0, files |-> {}]>>
          /\ wt \in InitTrees
          /\ staged = {}
          /\ remotes = {"origin"}
          /\ tracking = [b \in {} |-> 0]     \* origin was never fetched
    /\ pre = Snapshot

(***************************************************************************)
(* create_unique_branch, lines 70-76: the collision-avoidance loop.        *)
(***************************************************************************)
\* the loop with the counter advanced before the name is formatted
RECURSIVE ProbeLoopIncrementFirst(_, _, _, _)
ProbeLoopIncrementFirst(base_name, existing_branches, new_branch_name, counter) ==
    IF new_branch_name \in existing_branches
    THEN ProbeLoopIncrementFirst(base_name, existing_branches,
                                 base_name \o "-" \o ToString(counter + 1), counter + 1)
    ELSE [new_branch_name |-> new_branch_name, counter |-> counter]

\* "if" in place of "while": one collision is stepped over, no more
ProbeLoopOnce(base_name, existing_branches, new_branch_name, counter) ==
    IF new_branch_name \in existing_branches
    THEN [new_branch_name |-> base_name \o "-" \o ToString(counter),
          counter |-> counter + 1]
    ELSE [new_branch_name |-> new_branch_name, counter |-> counter]

RECURSIVE ProbeLoop(_, _, _, _)
ProbeLoop(base_name, existing_branches, new_branch_name, counter) ==
    IF new_branch_name \in existing_branches
    THEN ProbeLoop(base_name, existing_branches,
                   base_name \o "-" \o ToString(counter), counter + 1)
    ELSE [new_branch_name |-> new_branch_name, counter |-> counter]

\* git checkout <branch>: needs the branch to exist; may fail for other
\* reasons (index lock, conflicting local changes, no git executable).
CheckoutOutcomes(branch) ==
    IF branch \in DOMAIN heads THEN EngineOutcomes ELSE FailKinds

\* git checkout <from_branch>, line 80: a name that is no local branch but
\* is a branch of the remote is checked out by creating the local branch
\* from the remote-tracking one (git's default checkout.guess).
CheckoutBaseOutcomes(branch) ==
    IF branch \in DOMAIN heads \cup DOMAIN tracking THEN EngineOutcomes ELSE FailKinds

\* the local branches after a successful git checkout <branch>
HeadsAfterCheckout(branch) ==
    IF branch \in DOMAIN heads THEN heads
    ELSE [b \in DOMAIN heads \cup {branch} |->
            IF b = branch THEN tracking[branch] ELSE heads[b]]

\* the guard left out
IsBoundUnchecked == TRUE

\* The guard at the top of every operation but clone: "if not self.repo".
IsBound == repo # NoRepo

\* After an engine call of create_unique_branch failed with class kind:
\* a GitCommandError enters the except clause (the rollback comes next),
\* any other error leaves the operation as it is.
\* the error of a step swallowed and the creation gone on with
CubFailedIgnored(kind, idx) ==
    /\ pc' = "create"
    /\ UNCHANGED <<cub, result>>

CubFailed(kind, idx) ==
    IF kind = "GitCommandError"
    THEN /\ pc' = "rollback"
         /\ cub' = [cub EXCEPT !.failed = idx]
         /\ UNCHANGED result
    ELSE /\ pc' = "idle"
         /\ cub' = NoLocals
         /\ result' = Raised("create_unique_branch", kind, idx)

\* lines 67-76: the guard, the enumeration of the branches and the probe
CubProbe(base_name, from_branch) ==
    /\ pc = "idle"
    /\ pre' = Snapshot
    /\ args' = <<base_name, from_branch>>
    /\ UNCHANGED <<repo, occupied, disk, returned>>
    /\ IF ~IsBound
       THEN /\ result' = NotBound("create_unique_branch")
            /\ calls' = << >>
            /\ UNCHANGED <<pc, cub>>
       ELSE LET existing_branches == DOMAIN heads
                probe == ProbeLoop(base_name, existing_branches, base_name, 1)
            IN  /\ calls' = <<Call("heads", NoValue, "ok")>>
                /\ cub' = [base_name |-> base_name, from_branch |-> from_branch,
                           new_branch_name |-> probe.new_branch_name,
                           counter |-> probe.counter,
                           existing_branches |-> existing_branches,
                           current_branch |-> NoValue, failed |-> 0]
                /\ pc' = "remember"
                /\ UNCHANGED result

\* the call begins; the number of branches is capped
CubStart(base_name, from_branch) ==
    /\ Cardinality(DOMAIN heads) < MaxBranches
    /\ CubProbe(base_name, from_branch)

\* an active_branch that answers in the detached state too
CubRememberAnyHead ==
    /\ pc = "remember"
    /\ UNCHANGED <<repo, occupied, disk, pre, args, returned, result>>
    /\ calls' = Append(calls, Call("active_branch", NoValue, "ok"))
    /\ cub' = [cub EXCEPT !.current_branch = head]
    /\ pc' = "checkout_base"

\* line 79: current_branch = self.repo.active_branch (TypeError when detached)
CubRemember ==
    /\ pc = "remember"
    /\ UNCHANGED <<repo, occupied, disk, pre, args, returned>>
    /\ IF head = Detached
       THEN /\ calls' = Append(calls, Call("active_branch", NoValue, "OtherError"))
            /\ CubFailed("OtherError", Len(calls) + 1)
       ELSE /\ calls' = Append(calls, Call("active_branch", NoValue, "ok"))
            /\ cub' = [cub EXCEPT !.current_branch = head]
            /\ pc' = "checkout_base"
            /\ UNCHANGED result

\* line 80: self.repo.git.checkout(from_branch)
CubCheckoutBase ==
    /\ pc = "checkout_base"
    /\ UNCHANGED <<repo, occupied, detachedAt, commits, wt, staged,
                   remotes, tracking, pre, args, returned>>
    /\ \E out \in CheckoutBaseOutcomes(cub.from_branch) :
          /\ calls' = Append(calls, Call("checkout", cub.from_branch, out))
          /\ IF out = "ok"
             THEN /\ head' = cub.from_branch
                  /\ heads' = HeadsAfterCheckout(cub.from_branch)
                  /\ pc' = "create"
                  /\ UNCHANGED <<cub, result>>
             ELSE /\ CubFailed(out, Len(calls) + 1)
                  /\ UNCHANGED <<head, heads>>

\* line 81: new_branch = self.repo.create_head(new_branch_name), at HEAD
CubCreate ==
    /\ pc = "create"
    /\ UNCHANGED <<repo, occupied, head, detachedAt, commits, wt, staged,
                   remotes, tracking, pre, args, returned>>
    /\ \E out \in (IF cub.new_branch_name \in DOMAIN heads
                    THEN FailKinds ELSE EngineOutcomes) :
          /\ calls' = Append(calls, Call("create_head", cub.new_branch_name, out))
          /\ IF out = "ok"
             THEN /\ heads' = [b \in DOMAIN heads \cup {cub.new_branch_name} |->
                                 IF b = cub.new_branch_name THEN HeadCommit
                                 ELSE heads[b]]
                  /\ pc' = "checkout_new"
                  /\ UNCHANGED <<cub, result>>
             ELSE /\ CubFailed(out, Len(calls) + 1)
                  /\ UNCHANGED heads

\* "return base_name" in place of line 83
CubReturnBaseName == cub.base_name

\* line 83: return new_branch_name
CubReturnValue == cub.new_branch_name

\* the name returned with the new branch created but not checked out
CubReturnWithoutCheckout ==
    /\ pc = "checkout_new"
    /\ UNCHANGED <<repo, occupied, disk, pre, args, calls>>
    /\ pc' = "idle"
    /\ result' = Returned("create_unique_branch", CubReturnValue)
    /\ returned' = Append(returned, [name |-> CubReturnValue,
                                      before |-> DOMAIN pre.heads])
    /\ cub' = NoLocals

\* lines 82-83: new_branch.checkout(); return new_branch_name
CubCheckoutNew ==
    /\ pc = "checkout_new"
    /\ UNCHANGED <<repo, occupied, heads, detachedAt, commits, wt, staged,
                   remotes, tracking, pre, args>>
    /\ \E out \in CheckoutOutcomes(cub.new_branch_name) :
          /\ calls' = Append(calls, Call("checkout", cub.new_branch_name, out))
          /\ IF out = "ok"
             THEN /\ head' = cub.new_branch_name
                  /\ pc' = "idle"
                  /\ result' = Returned("create_unique_branch", CubReturnValue)
                  /\ returned' = Append(returned, [name |-> CubReturnValue,
                                                    before |-> DOMAIN pre.heads])
                  /\ cub' = NoLocals
             ELSE /\ CubFailed(out, Len(calls) + 1)
                  /\ UNCHANGED <<head, returned>>

\* a rollback that also deletes what the failed call had created
CubRollbackDeleting ==
    /\ pc = "rollback"
    /\ UNCHANGED <<repo, occupied, detachedAt, commits, wt, staged,
                   remotes, tracking, pre, args, returned>>
    /\ pc' = "idle"
    /\ cub' = NoLocals
    /\ calls' = Append(calls, Call("checkout", cub.current_branch, "ok"))
    /\ head' = cub.current_branch
    /\ heads' = pre.heads
    /\ result' = Raised("create_unique_branch", "GitCommandError", cub.failed)

\* lines 84-86: except GitCommandError as e: checkout(current_branch), then
\* raise the wrapped error from e.  A failure of this checkout is raised
\* from inside the handler and is what the caller gets.
CubRollback ==
    /\ pc = "rollback"
    /\ UNCHANGED <<repo, occupied, heads, detachedAt, commits, wt, staged,
                   remotes, tracking, pre, args, returned>>
    /\ pc' = "idle"
    /\ cub' = NoLocals
    /\ \E out \in CheckoutOutcomes(cub.current_branch) :
          /\ calls' = Append(calls, Call("checkout", cub.current_branch, out))
          /\ IF out = "ok"
             THEN /\ head' = cub.current_branch
                  /\ result' = Raised("create_unique_branch", "GitCommandError",
                                      cub.failed)
             ELSE /\ UNCHANGED head
                  /\ result' = [op |-> "create_unique_branch", error |-> out,
                                about |-> Len(calls) + 1, context |-> cub.failed,
                                value |-> NoValue]

create_unique_branch ==
    \/ \E base_name \in BaseNames, from_branch \in FromBranches :
          CubStart(base_name, from_branch)
    \/ CubRemember
    \/ CubCheckoutBase
    \/ CubCreate
    \/ CubCheckoutNew
    \/ CubRollback

(***************************************************************************)
(* clone_repository, lines 47-53.  No bound guard.  git clone refuses a    *)
(* destination that exists and is not empty.  The clone has one local      *)
(* branch (the one asked for, or the remote's default "main"), checked    *)
(* out, a clean working tree, the remote "origin" and a remote-tracking    *)
(* branch for every branch of the remote.                                  *)
(***************************************************************************)
ClonedBranch(branch) == IF branch = "None" THEN "main" ELSE branch

\* the handle Repo.clone_from returns is returned but not kept
BoundAfterCloneDropped(out, clone_path) == repo

\* self.repo cleared before the clone is tried
BoundAfterCloneCleared(out, clone_path) == IF out = "ok" THEN clone_path ELSE NoRepo

\* line 50: self.repo = Repo.clone_from(...): assigned only when the call returns
BoundAfterClone(out, clone_path) == IF out = "ok" THEN clone_path ELSE repo

clone_repository(url, branch, destination) ==
    /\ pc = "idle"
    /\ pre' = Snapshot
    /\ args' = <<url, branch, destination>>
    /\ UNCHANGED <<pc, cub>>
    /\ LET clone_path == IF destination = "None" THEN RepoPath ELSE destination
       IN \E out \in (IF clone_path \in occupied THEN FailKinds ELSE EngineOutcomes) :
            /\ calls' = <<Call("clone_from", clone_path, out)>>
            /\ repo' = BoundAfterClone(out, clone_path)
            /\ IF out = "ok"
               THEN /\ occupied' = occupied \cup {clone_path}
                    /\ heads' = [b \in {ClonedBranch(branch)} |-> 1]
                    /\ head' = ClonedBranch(branch)
                    /\ detachedAt' = 0
                    /\ commits' = <<[message |-> "root", parent |-> 0, files |-> {}]>>
                    /\ wt' = [f \in Files |-> "clean"]
                    /\ staged' = {}
                    /\ remotes' = {"origin"}
                    /\ tracking' = [b \in {"main", ClonedBranch(branch)} |-> 1]
                    /\ returned' = << >>
                    /\ result' = Returned("clone_repository", clone_path)
               ELSE /\ UNCHANGED <<occupied, disk, returned>>
                    /\ result' = Raised("clone_repository", out, 1)

(***************************************************************************)
(* commit_changes, lines 100-112.                                          *)
(***************************************************************************)
\* paths of S with a change in the working tree that staging records
Stageable(S) == {f \in S \cap Files : wt[f] \in {"modified", "untracked"}}

\* the content-derived id of a commit, as the hex string the caller gets
Hexsha(id) == "sha" \o ToString(id)

commit_changes(message, files) ==
    /\ pc = "idle"
    /\ Len(commits) < MaxCommits
    /\ pre' = Snapshot
    /\ args' = <<message, files>>
    /\ UNCHANGED <<repo, occupied, remotes, tracking, pc, cub, returned>>
    /\ IF ~IsBound
       THEN /\ result' = NotBound("commit_changes")
            /\ calls' = << >>
            /\ UNCHANGED <<heads, head, detachedAt, commits, wt, staged>>
       ELSE LET listed == files.given /\ files.paths # << >>     \* "if files:"
                S == IF listed THEN Range(files.paths) ELSE Files
                stagePrim == IF listed THEN "index.add" ELSE "git.add(A=True)"
                \* index.add raises FileNotFoundError for a path that is not there
                stageOuts == IF listed /\ \E f \in S : f \notin Files \/ wt[f] = "missing"
                             THEN FailKinds ELSE EngineOutcomes
            IN \E so \in stageOuts, co \in EngineOutcomes :
                 IF so # "ok"
                 THEN /\ calls' = <<Call(stagePrim, NoValue, so)>>
                      /\ result' = Raised("commit_changes", so, 1)
                      /\ co = "ok"
                      /\ UNCHANGED <<heads, head, detachedAt, commits, wt, staged>>
                 ELSE /\ calls' = <<Call(stagePrim, NoValue, "ok"),
                                    Call("index.commit", message, co)>>
                      /\ wt' = [f \in Files |->
                                  IF f \in Stageable(S) THEN "clean" ELSE wt[f]]
                      /\ IF co = "ok"
                         THEN LET id == Len(commits) + 1
                              IN /\ commits' = Append(commits,
                                        [message |-> message, parent |-> HeadCommit,
                                         files |-> staged \cup Stageable(S)])
                                 /\ staged' = {}
                                 /\ IF head = Detached
                                    THEN detachedAt' = id /\ UNCHANGED heads
                                    ELSE heads' = [heads EXCEPT ![head] = id]
                                         /\ UNCHANGED detachedAt
                                 /\ result' = Returned("commit_changes", Hexsha(id))
                         ELSE /\ staged' = staged \cup Stageable(S)
                              /\ UNCHANGED <<heads, detachedAt, commits>>
                              /\ result' = Raised("commit_changes", co, 2)
                      /\ UNCHANGED head

(***************************************************************************)
(* push_branch, lines 128-137.  Repo.remote raises ValueError for a name   *)
(* that is not configured.  Remote.push raises when git push printed no    *)
(* result line (network, authentication, unknown source ref); a push the   *)
(* remote rejected is reported in the returned PushInfo list, which the    *)
(* agent does not read.                                                    *)
(***************************************************************************)
PushOutcomes(branch) ==
    IF branch \in DOMAIN heads THEN EngineOutcomes \cup {"rejected"} ELSE FailKinds

push_branch(branch_name, remote_name) ==
    /\ pc = "idle"
    /\ pre' = Snapshot
    /\ args' = <<branch_name, remote_name>>
    /\ UNCHANGED <<repo, occupied, disk, pc, cub, returned>>
    /\ IF ~IsBound
       THEN /\ result' = NotBound("push_branch")
            /\ calls' = << >>
       ELSE LET useActive == branch_name = "None"
                first == IF useActive
                         THEN <<Call("active_branch", NoValue,
                                     IF head = Detached THEN "OtherError" ELSE "ok")>>
                         ELSE << >>
                branch == IF useActive THEN head ELSE branch_name
                n == Len(first)
            IN IF useActive /\ head = Detached
               THEN /\ calls' = first
                    /\ result' = Raised("push_branch", "OtherError", 1)
               ELSE IF remote_name \notin remotes
               THEN /\ calls' = Append(first, Call("remote", remote_name, "OtherError"))
                    /\ result' = Raised("push_branch", "OtherError", n + 1)
               ELSE \E out \in PushOutcomes(branch) :
                      /\ calls' = first \o <<Call("remote", remote_name, "ok"),
                                             Call("push", branch, out)>>
                      /\ result' = IF out \in {"ok", "rejected"}
                                   THEN Returned("push_branch", "True")
                                   ELSE Raised("push_branch", out, n + 2)

(***************************************************************************)
(* get_repository_status, lines 147-161.                                   *)
(***************************************************************************)
\* the reads of lines 152-158, in evaluation order; active_branch is read
\* only when HEAD is not detached
StatusPrims ==
    <<"head.is_detached">> \o
    (IF head = Detached THEN << >> ELSE <<"active_branch">>) \o
    <<"is_dirty", "untracked_files", "index.diff(None)", "index.diff(HEAD)",
      "remotes", "heads">>

\* the current branch answered from what was seen when the previous
\* operation began, not read from the repository
StatusDictCached ==
    [current_branch |-> IF pre.head # Detached THEN pre.head ELSE "DETACHED_HEAD",
     is_dirty |-> (staged # {} \/ \E f \in Files : wt[f] = "modified"),
     untracked_files |-> {f \in Files : wt[f] = "untracked"},
     modified_files |-> {f \in Files : wt[f] = "modified"},
     staged_files |-> staged,
     remotes |-> remotes,
     branches |-> DOMAIN heads]

StatusDict ==
    [current_branch |-> IF head # Detached THEN head ELSE "DETACHED_HEAD",
     is_dirty |-> (staged # {} \/ \E f \in Files : wt[f] = "modified"),
     untracked_files |-> {f \in Files : wt[f] = "untracked"},
     modified_files |-> {f \in Files : wt[f] = "modified"},
     staged_files |-> staged,
     remotes |-> remotes,
     branches |-> DOMAIN heads]

\* the reads at which a failure is followed: the first and the last of those
\* that run a git process (a failure of a read between them differs from
\* these only in the number of reads done before it)
StatusFailurePoints ==
    {k \in 1..Len(StatusPrims) : StatusPrims[k] \in {"is_dirty", "index.diff(HEAD)"}}

get_repository_status ==
    /\ pc = "idle"
    /\ pre' = Snapshot
    /\ args' = << >>
    /\ UNCHANGED <<repo, occupied, disk, pc, cub, returned>>
    /\ IF ~IsBound
       THEN /\ result' = NotBound("get_repository_status")
            /\ calls' = << >>
       ELSE \/ /\ calls' = [i \in 1..Len(StatusPrims) |->
                              Call(StatusPrims[i], NoValue, "ok")]
               /\ result' = Returned("get_repository_status", StatusDict)
            \/ \E k \in StatusFailurePoints, kind \in FailKinds :
                 /\ calls' = [i \in 1..k |->
                                Call(StatusPrims[i], NoValue,
                                     IF i = k THEN kind ELSE "ok")]
                 /\ result' = Raised("get_repository_status", kind, k)

Urls == {"https://example/repo.git"}

Next ==
    \/ create_unique_branch
    \/ \E url \in Urls, branch \in CloneBranches, destination \in Destinations :
          clone_repository(url, branch, destination)
    \/ \E message \in Messages, files \in FileArgs :
          commit_changes(message, files)
    \/ \E branch_name \in BranchArgs, remote_name \in RemoteNames :
          push_branch(branch_name, remote_name)
    \/ get_repository_status

Spec == Init /\ [][Next]_vars

(***************************************************************************)
(* Properties.                                                             *)
(***************************************************************************)
\* operation op has ended and nothing has been called since
Done(op) == pc = "idle" /\ result.op = op

\* the engine calls of the last operation that failed
Failures == {i \in 1..Len(calls) : calls[i].out \in FailKinds}
FirstFailure == CHOOSE i \in Failures : \A j \in Failures : i <= j

CubSucceeded == Done("create_unique_branch") /\ result.error = "none"

\* C1 (Uniqueness): a successful create_unique_branch returns a name that
\* was not a local branch when the call began, and the names returned by
\* successive successful calls on a repository are pairwise different.
C1_Uniqueness ==
    /\ CubSucceeded => result.value \notin DOMAIN pre.heads
    /\ \A i, j \in 1..Len(returned) : i # j => returned[i].name # returned[j].name

\* two successful calls in a row with the same base name, the second one
\* finding the base name taken
C1_Witness ==
    /\ CubSucceeded
    /\ Len(returned) >= 2
    /\ args[1] \in DOMAIN pre.heads

\* C2 (Rollback): when create_unique_branch fails at create_head or at the
\* checkout of the new branch, whatever the class of the failure, the
\* repository is on the branch it was on before the call.
C2_Rollback ==
    (/\ Done("create_unique_branch")
     /\ Failures # {}
     /\ \/ calls[FirstFailure].prim = "create_head"
        \/ calls[FirstFailure - 1].prim = "create_head")
    => head = pre.head

\* C3 (Unbound guard): on an unbound agent create_unique_branch,
\* commit_changes, push_branch and get_repository_status fail with the
\* not-bound error, call the engine not at all and leave the agent unbound.
GuardedOps ==
    {"create_unique_branch", "commit_changes", "push_branch", "get_repository_status"}

C3_UnboundGuard ==
    /\ (pc = "idle" /\ pre.repo = NoRepo /\ result.op \in GuardedOps)
          => (result.error = "NotBound" /\ calls = << >> /\ repo = NoRepo)
    /\ repo = NoRepo => pc = "idle"

C3_Witness ==
    /\ Done("create_unique_branch")
    /\ pre.repo = NoRepo
    /\ result.error = "NotBound"

\* C4 (Clone failure preserves the binding): after a failed clone the
\* bound handle is what it was before the call.
C4_CloneFailureKeepsBinding ==
    (Done("clone_repository") /\ result.error # "none") => repo = pre.repo

\* a clone that failed on an agent bound by an earlier clone and used since
C4_Witness ==
    /\ Done("clone_repository")
    /\ result.error = "Wrapped"
    /\ pre.repo = "/dest"
    /\ returned # << >>

\* C5 (Linear probe): a successful create_unique_branch(n) returns n when n
\* is no local branch, and otherwise n-k for the smallest k >= 1 such that
\* n-k is no local branch; the repository is then on the returned branch;
\* two successive calls for "feature" return "feature", then "feature-1".
Suffixed(n, k) == n \o "-" \o ToString(k)

SmallestFree(n, B) ==
    IF n \notin B THEN n
    ELSE Suffixed(n, CHOOSE k \in 1..(Cardinality(B) + 1) :
                        /\ Suffixed(n, k) \notin B
                        /\ \A j \in 1..(k - 1) : Suffixed(n, j) \in B)

\* successful calls number i and i + 1, with no branch made between them
Successive(i) ==
    /\ i + 1 <= Len(returned)
    /\ returned[i + 1].before = returned[i].before \cup {returned[i].name}

ProbeRule ==
    CubSucceeded =>
        /\ result.value = SmallestFree(args[1], DOMAIN pre.heads)
        /\ head = result.value

\* C5 as claimed: the rule, and "feature" then "feature-1" wherever
\* "feature" was free.
C5_LinearProbeAsClaimed ==
    /\ ProbeRule
    /\ \A i \in 1..Len(returned) :
          (Successive(i) /\ "feature" \notin returned[i].before)
              => (returned[i].name = "feature" /\ returned[i + 1].name = "feature-1")

\* C5 as amended: the rule, and "feature" then "feature-1" wherever
\* "feature" and "feature-1" were both free.
C5_LinearProbe ==
    /\ ProbeRule
    /\ \A i \in 1..Len(returned) :
          (/\ Successive(i)
           /\ "feature" \notin returned[i].before
           /\ "feature-1" \notin returned[i].before)
              => (returned[i].name = "feature" /\ returned[i + 1].name = "feature-1")

\* two calls in a row where both names were free, ending on "feature-1"
C5_Witness ==
    /\ CubSucceeded
    /\ Len(returned) = 2
    /\ Successive(1)
    /\ {"feature", "feature-1"} \cap returned[1].before = {}
    /\ head = "feature-1"

\* C6 (Rollback failure does not mask the primary failure): when a step of
\* create_unique_branch fails and the rollback checkout fails too, the
\* caller gets the wrapped error of the first failure.
C6_PrimaryNotMasked ==
    (Done("create_unique_branch") /\ Cardinality(Failures) >= 2)
    => (result.error = "Wrapped" /\ result.about = FirstFailure)

\* C7 (Error wrapping): whenever an engine call of an operation of a bound
\* agent fails, with an error of any class, the operation ends with the
\* wrapped error whose cause is that failure.
C7_ErrorWrapping ==
    (pc = "idle" /\ pre.repo # NoRepo /\ Failures # {})
    => (result.error = "Wrapped" /\ result.about = FirstFailure)

\* C8 (Unknown remote): push_branch on a bound agent, when it resolves a
\* remote name that is not configured, fails with the wrapped error and
\* pushes nothing.
C8_UnknownRemote ==
    (/\ Done("push_branch")
     /\ pre.repo # NoRepo
     /\ args[2] \notin pre.remotes
     /\ \E i \in 1..Len(calls) : calls[i].prim = "remote")
    => (/\ result.error = "Wrapped"
        /\ \A i \in 1..Len(calls) : calls[i].prim # "push")

\* C9 (Push result is faithful): push_branch returns success only when
\* the remote accepted the push; a push that failed (network,
\* authentication) or that the remote rejected ends with the wrapped error.
C9_PushFaithful ==
    Done("push_branch") =>
        /\ result.error = "none" =>
              \E i \in 1..Len(calls) : calls[i].prim = "push" /\ calls[i].out = "ok"
        /\ (\E i \in 1..Len(calls) :
               calls[i].prim = "push" /\ calls[i].out \in {"GitCommandError", "rejected"})
              => result.error = "Wrapped"

\* C10 (Nothing to commit): when the index holds no change after the
\* staging step, commit_changes fails and the history is unchanged.
IndexAfterStaging == pre.staged \cup {f \in Files : wt[f] # pre.wt[f]}

C10_NothingToCommit ==
    (/\ Done("commit_changes")
     /\ pre.repo # NoRepo
     /\ calls # << >>
     /\ calls[1].out = "ok"
     /\ IndexAfterStaging = {})
    => (result.error # "none" /\ commits = pre.commits)

\* the working-tree changes the staging step of the last commit_changes
\* moved into the index
StagedByCall == {f \in Files : wt[f] # pre.wt[f]}

\* the working-tree changes among the paths S when the call began
ChangedIn(S) == {f \in S \cap Files : pre.wt[f] \in {"modified", "untracked"}}

\* C11 (Staging selection): when commit_changes is called with a files list
\* (any list, the empty list included) its staging step stages the changes
\* of exactly the listed paths and no other working-tree change; only when
\* files is omitted does it stage every change of the working tree.
C11_StagingSelection ==
    (/\ Done("commit_changes")
     /\ pre.repo # NoRepo
     /\ calls # << >>
     /\ calls[1].out = "ok")
    => StagedByCall = IF args[2].given THEN ChangedIn(Range(args[2].paths))
                                      ELSE ChangedIn(Files)

StatusOk == Done("get_repository_status") /\ result.error = "none"

\* C12 (Idempotent, read-only status): get_repository_status changes nothing
\* of the repository (current branch, branch set, index, working tree,
\* remotes) and nothing of the binding, and of two calls with no operation
\* between them the second returns, field by field, what the first returned.
C12_StatusReadOnly ==
    [][(pc = "idle" /\ pc' = "idle" /\ result'.op = "get_repository_status")
        => /\ repo' = repo
           /\ disk' = disk
           /\ (StatusOk /\ result'.error = "none")
                 => result'.value = result.value]_vars

\* a status returned on a repository that earlier operations have changed:
\* a created branch is checked out, a change is left staged
C12_Witness ==
    /\ StatusOk
    /\ pre = Snapshot
    /\ result.value.current_branch \in Range([i \in DOMAIN returned |-> returned[i].name])
    /\ result.value.staged_files # {}
    /\ result.value.is_dirty

CloneSucceeded == Done("clone_repository") /\ result.error = "none"

\* C13 (Clone success binds the agent): a clone that succeeds, on an agent
\* unbound or bound before, leaves the agent bound to the repository just
\* cloned and returns that handle; from then on the agent stays bound, so
\* no later create_unique_branch, commit_changes, push_branch or
\* get_repository_status ends at the unbound guard, and each of them leaves
\* the binding on the repository it found.
C13_CloneSuccessBinds ==
    /\ CloneSucceeded
          => /\ repo # NoRepo
             /\ repo = (IF args[3] = "None" THEN RepoPath ELSE args[3])
             /\ result.value = repo
             /\ head = ClonedBranch(args[2])
             /\ DOMAIN heads = {head}
    /\ occupied # {} => repo \in occupied
    /\ (pc = "idle" /\ result.op \in GuardedOps /\ occupied # {})
          => (result.error # "NotBound" /\ repo = pre.repo)

\* a commit made in the repository cloned to /dest by an agent that had a
\* repository at /work before
C13_Witness ==
    /\ Done("commit_changes")
    /\ result.error = "none"
    /\ repo = "/dest"
    /\ RepoPath \in occupied
    /\ Len(commits) = 2

\* the engine calls of a create_unique_branch that is running or has ended
InCub == pc # "idle" \/ (Done("create_unique_branch") /\ calls # << >>)

CubSteps == <<"heads", "active_branch", "checkout", "create_head", "checkout">>

\* what the i-th call is about when no call before it failed
CubStepArg(i) ==
    CASE i = 3 -> args[2]
      [] i \in {4, 5} -> SmallestFree(args[1], DOMAIN pre.heads)
      [] OTHER -> NoValue

\* C14 (Step order in create_unique_branch): the branches are enumerated
\* first (the probe works on that enumeration), then the original branch is
\* recorded, then from_branch is checked out, then the new branch is
\* created, then the new branch is checked out.  The branch is created only
\* after the checkout of from_branch succeeded, the new branch is checked
\* out only after its creation succeeded, and the rollback checkout of the
\* recorded branch is issued only after one of these steps failed.
C14_StepOrder ==
    InCub =>
      \A i \in 1..Len(calls) :
         IF \E j \in 1..(i - 1) : calls[j].out \in FailKinds
         THEN /\ i = FirstFailure + 1
              /\ FirstFailure \in 3..5
              /\ calls[FirstFailure].out = "GitCommandError"
              /\ calls[i].prim = "checkout"
              /\ calls[i].arg = pre.head
         ELSE /\ i <= Len(CubSteps)
              /\ calls[i].prim = CubSteps[i]
              /\ calls[i].arg = CubStepArg(i)

\* all five steps issued, the last one failed, and the rollback after it
C14_Witness ==
    /\ Done("create_unique_branch")
    /\ Len(calls) = 6
    /\ calls[5].out = "GitCommandError"
    /\ calls[6].prim = "checkout"
    /\ calls[6].out = "ok"

\* C15 as claimed: after a successful create_unique_branch that returned r
\* the local branches are those from before the call and r, r points at the
\* tip from_branch had, and r is the current branch.
C15_SuccessPostconditionAsClaimed ==
    CubSucceeded =>
        /\ head = result.value
        /\ DOMAIN heads = DOMAIN pre.heads \cup {result.value}
        /\ heads[result.value] = pre.heads[args[2]]

\* C15 (Success postcondition), amended: after a successful
\* create_unique_branch that returned r, r is the current branch and every
\* branch from before the call is where it was; when from_branch was a
\* local branch, the local branches are those from before the call and r,
\* and r points at the tip from_branch had; when from_branch was only a
\* branch of the remote, its checkout has created it, the local branches
\* are those from before the call, from_branch and r, and r points at the
\* tip of the remote's branch.
C15_SuccessPostcondition ==
    CubSucceeded =>
        /\ head = result.value
        /\ \A b \in DOMAIN pre.heads : b \in DOMAIN heads /\ heads[b] = pre.heads[b]
        /\ IF args[2] \in DOMAIN pre.heads
           THEN /\ DOMAIN heads = DOMAIN pre.heads \cup {result.value}
                /\ heads[result.value] = pre.heads[args[2]]
           ELSE /\ DOMAIN heads = DOMAIN pre.heads \cup {args[2], result.value}
                /\ heads[args[2]] = pre.tracking[args[2]]
                /\ heads[result.value] = pre.tracking[args[2]]

\* a branch created from a local branch other than the one checked out,
\* whose tip is another commit than the tip of the one checked out
C15_Witness ==
    /\ CubSucceeded
    /\ args[2] \in DOMAIN pre.heads
    /\ pre.head \in DOMAIN pre.heads
    /\ pre.head # args[2]
    /\ pre.heads[pre.head] # pre.heads[args[2]]

\* a create_unique_branch that got past the guard and ended with an error
CubFailedCall ==
    /\ Done("create_unique_branch")
    /\ pre.repo # NoRepo
    /\ result.error # "none"

\* C17 as claimed, for a from_branch that is a local branch: a
\* create_unique_branch that ends with an error at the checkout of
\* from_branch, at the creation or at the checkout of the new branch leaves
\* the set of local branches as it was before the call.
C17_FailedCallAddsNoBranchAsClaimed ==
    (CubFailedCall /\ FirstFailure \in 3..5 /\ args[2] \in DOMAIN pre.heads)
        => DOMAIN heads = DOMAIN pre.heads

\* the branches a failed call leaves behind: the new branch when the call
\* failed at its checkout, from_branch when its checkout created it
LeftBehind ==
    (IF FirstFailure = 5 THEN {SmallestFree(args[1], DOMAIN pre.heads)} ELSE {})
    \cup (IF FirstFailure >= 4 /\ args[2] \notin DOMAIN pre.heads
          THEN {args[2]} ELSE {})

\* C17 (A failed create_unique_branch), amended: a call that ends with an
\* error at the checkout of from_branch, or at the creation when from_branch
\* was a local branch, leaves the set of local branches as it was, and a
\* retry probes the name the failed attempt had probed; a call that fails
\* at the checkout of the new branch leaves the created branch behind, and
\* a checkout of from_branch that created it from the remote's branch
\* leaves that branch behind; no other branch appears or disappears.
C17_FailedCallAddsNoBranch ==
    CubFailedCall =>
        /\ DOMAIN heads = DOMAIN pre.heads \cup LeftBehind
        /\ LeftBehind = {}
              => ProbeLoop(args[1], DOMAIN heads, args[1], 1).new_branch_name
                   = SmallestFree(args[1], DOMAIN pre.heads)

\* the creation failed after from_branch, a local branch, was checked out
C17_Witness ==
    /\ CubFailedCall
    /\ FirstFailure = 4
    /\ args[2] \in DOMAIN pre.heads
    /\ pre.head # args[2]
    /\ head = pre.head

\* C18 (create_unique_branch in the detached state): called on a bound
\* agent whose repository has no branch checked out, the call ends with an
\* error when it asks for the branch to remember, before any checkout or
\* create-branch call is issued, and leaves the checkout position and the
\* set of local branches (and their tips) as they were.
C18_DetachedFailsEarly ==
    /\ (Done("create_unique_branch") /\ pre.repo # NoRepo /\ pre.head = Detached)
          => /\ result.error \notin {"none", "NotBound"}
             /\ \A i \in 1..Len(calls) :
                   calls[i].prim \notin {"checkout", "create_head"}
             /\ head = pre.head
             /\ detachedAt = pre.detachedAt
             /\ heads = pre.heads
    /\ (pc \notin {"idle", "remember"}) => pre.head # Detached

\* the call made in the detached state of a repository that has a commit of
\* its own at the detached position
C18_Witness ==
    /\ Done("create_unique_branch")
    /\ pre.repo # NoRepo
    /\ pre.head = Detached
    /\ pre.detachedAt > 1
    /\ Len(calls) = 2
    /\ calls[2].prim = "active_branch"

(***************************************************************************)
(* The probe of lines 70-76 on its own: a repository with any set of       *)
(* branches out of ProbeNames, and one call that enumerates and probes.    *)
(***************************************************************************)
MaxSuffix == 3

ProbeNames ==
    {"main", "fix", "fix-1", "feature"}
        \cup {Suffixed("feature", k) : k \in 1..MaxSuffix}

ProbeBaseNames == {"feature", "fix", "feature-1"}

InitProbe ==
    /\ InitIdle
    /\ \/ /\ repo = NoRepo
          /\ occupied = {}
          /\ EmptyDisk
       \/ /\ repo = RepoPath
          /\ occupied = {RepoPath}
          /\ \E B \in SUBSET ProbeNames \ {{}} :
                /\ heads = [b \in B |-> 1]
                /\ head = CHOOSE b \in B : TRUE
          /\ detachedAt = 0
          /\ commits = <<[message |-> "root", parent |-> 0, files |-> {}]>>
          /\ wt = [f \in Files |-> "clean"]
          /\ staged = {}
          /\ remotes = {"origin"}
          /\ tracking = [b \in {} |-> 0]
    /\ pre = Snapshot

NextProbe ==
    \E base_name \in ProbeBaseNames, from_branch \in FromBranches :
        CubProbe(base_name, from_branch)

SpecProbe == InitProbe /\ [][NextProbe]_vars

\* the k-th candidate the loop tries for base name n
Candidate(n, k) == IF k = 1 THEN n ELSE Suffixed(n, k - 1)

\* C16 (Probe termination): for every set of existing local branches and
\* every base name the loop of create_unique_branch stops, with a candidate
\* that is not in the enumerated set, after trying at most (number of
\* existing branches + 1) candidates: the candidates tried are the base
\* name, then base-1, base-2, ..., and each one before the last was taken.
C16_ProbeTermination ==
    pc = "remember" =>
        /\ cub.existing_branches = DOMAIN heads
        /\ cub.new_branch_name \notin cub.existing_branches
        /\ cub.counter \in 1..(Cardinality(cub.existing_branches) + 1)
        /\ cub.new_branch_name = Candidate(cub.base_name, cub.counter)
        /\ \A j \in 1..(cub.counter - 1) :
              Candidate(cub.base_name, j) \in cub.existing_branches

\* every existing branch was a collision: the bound is attained
C16_Witness ==
    /\ pc = "remember"
    /\ cub.counter = Cardinality(cub.existing_branches) + 1
    /\ cub.counter >= 3

====
